---------------------------- MODULE Spec2Model ----------------------------
(***************************************************************************)
(* A model of DebridTraktSync's title-resolution engine                    *)
(* (src/trakt_import_generator.py):                                        *)
(*   - TitleParser: clean_filename and extract_title_and_year, computed    *)
(*     character by character on strings, regex by regex;                  *)
(*   - TMDBLookup: the three catalog searches with their cross-reference   *)
(*     (detail) requests and their try/except;                             *)
(*   - TraktImportGenerator: process_downloads and lookup_title with its   *)
(*     cascade of strategies and its cache.                                *)
(* Text is a TLA+ string; Char(s, i) is its i-th character.                *)
(***************************************************************************)
EXTENDS Integers, Sequences, FiniteSets, TLC

(***************************************************************************)
(* Python values and string primitives                                     *)
(***************************************************************************)

\* An Optional[...] value: None is the empty tuple, a present value x is <<x>>
None == <<>>

Some(x) == <<x>>

Val(o) == o[1]

\* Python truthiness of an Optional[str] (None and "" are falsy) and of an
\* Optional[int] (None and 0 are falsy)
TruthyStr(o) == o # None /\ Val(o) # ""

TruthyInt(o) == o # None /\ Val(o) # 0

\* s[i-1:j] as Python slices: positions outside the text are dropped
Slice(s, i, j) ==
    LET lo == IF i < 1 THEN 1 ELSE i
        hi == IF j > Len(s) THEN Len(s) ELSE j
    IN IF lo > hi THEN "" ELSE SubSeq(s, lo, hi)

\* the i-th character of s ("" past either end)
Char(s, i) == Slice(s, i, i)

UpperLetters == "ABCDEFGHIJKLMNOPQRSTUVWXYZ"

LowerLetters == "abcdefghijklmnopqrstuvwxyz"

DigitChars == "0123456789"

CharsOf(s) == {Char(s, i) : i \in 1..Len(s)}

Digits == CharsOf(DigitChars)

\* str.isdigit on one character
IsDigit(c) == c \in Digits

\* regex \w on one character
WordChars == CharsOf(UpperLetters) \cup CharsOf(LowerLetters) \cup Digits \cup {"_"}

IsWordChar(c) == c \in WordChars

\* regex \s on one character, and the characters str.split / str.strip drop
IsSpace(c) == c \in {" ", "\t", "\n"}

LowerTable == [c \in CharsOf(UpperLetters) |->
                 Char(LowerLetters, CHOOSE i \in 1..26 : Char(UpperLetters, i) = c)]

LowerChar(c) == IF c \in DOMAIN LowerTable THEN LowerTable[c] ELSE c

\* the least and the greatest of a non-empty set of positions
Min(S) == CHOOSE x \in S : \A y \in S : x <= y

Max(S) == CHOOSE x \in S : \A y \in S : y <= x

\* where the run of characters of class InClass that starts at i ends: the first
\* position from i on that holds no such character
RunEnd(InClass(_), s, i) == Min({k \in i..(Len(s) + 1) : ~InClass(Char(s, k))})

\* the text of s from position i on
From(s, i) == Slice(s, i, Len(s))

\* str.startswith / str.endswith
StartsWith(s, p) == Len(p) <= Len(s) /\ SubSeq(s, 1, Len(p)) = p

EndsWith(s, p) == Len(p) <= Len(s) /\ SubSeq(s, Len(s) - Len(p) + 1, Len(s)) = p

\* p (in lower case) occurs in s.lower() at position i: what re.IGNORECASE and
\* str.lower() compare for these ASCII patterns
AtNoCase(s, i, p) ==
    /\ i + Len(p) - 1 <= Len(s)
    /\ \A k \in 1..Len(p) : LowerChar(Char(s, i + k - 1)) = Char(p, k)

\* the characters s[i], ..., s[i+n-1] exist and are all digits
DigitsAt(s, i, n) == i + n - 1 <= Len(s) /\ \A k \in i..(i + n - 1) : IsDigit(Char(s, k))

\* str.isdigit: non-empty and all digits
IsDigitString(s) == Len(s) > 0 /\ DigitsAt(s, 1, Len(s))

\* regex \b at position i: between s[i-1] and s[i]
WordAt(s, i) == i \in 1..Len(s) /\ IsWordChar(Char(s, i))

Boundary(s, i) == WordAt(s, i - 1) # WordAt(s, i)

\* str.strip()
Strip(s) ==
    LET keep == {i \in 1..Len(s) : ~IsSpace(Char(s, i))}
    IN IF keep = {} THEN "" ELSE SubSeq(s, Min(keep), Max(keep))

\* str.split(): the maximal runs of non-whitespace, in order
IsNonSpace(c) == c # "" /\ ~IsSpace(c)

Split(s) ==
    LET \* the tokens of s from position b on, where b starts a token or ends s
        Tokens[b \in 1..(Len(s) + 1)] ==
            IF b > Len(s) THEN <<>>
            ELSE <<Slice(s, b, RunEnd(IsNonSpace, s, b) - 1)>>
                 \o Tokens[RunEnd(IsSpace, s, RunEnd(IsNonSpace, s, b))]
    IN Tokens[RunEnd(IsSpace, s, 1)]

\* ' '.join(words)
Join(words) ==
    LET F[i \in 1..(Len(words) + 1)] ==
            IF i > Len(words) THEN ""
            ELSE IF i = Len(words) THEN words[i]
            ELSE words[i] \o " " \o F[i + 1]
    IN F[1]

\* int(s) for a digit string, and str(n) for n >= 0
DigitValue(c) == (CHOOSE i \in 1..10 : Char(DigitChars, i) = c) - 1

ToInt(s) ==
    LET F[i \in 0..Len(s)] == IF i = 0 THEN 0 ELSE 10 * F[i - 1] + DigitValue(Char(s, i))
    IN F[Len(s)]

RECURSIVE ToStr(_)
ToStr(n) == IF n < 10 THEN Char(DigitChars, n + 1)
            ELSE ToStr(n \div 10) \o Char(DigitChars, (n % 10) + 1)

\* an Optional[int] as an f-string formats it: None prints as "None"
PyStr(o) == IF o = None THEN "None" ELSE ToStr(Val(o))

(***************************************************************************)
(* re.sub: a pattern is an operator M(s, i) giving the position just after *)
(* the match that starts at i, or 0 when the pattern does not match there. *)
(* Matches are taken leftmost, do not overlap, and none here is empty.     *)
(***************************************************************************)

\* re.sub(pattern, rep, s)
\* the first position from `from` on where M matches (Len(s) + 1 when none does)
NextMatch(M(_, _), s, from) == Min({i \in from..(Len(s) + 1) : i > Len(s) \/ M(s, i) > 0})

Sub(M(_, _), rep, s) ==
    LET \* the result from position `from` on, when the next match starts at h
        Piece[from \in 1..(Len(s) + 1), h \in 1..(Len(s) + 1)] ==
            IF h > Len(s) THEN From(s, from)
            ELSE Slice(s, from, h - 1) \o rep \o Piece[M(s, h), NextMatch(M, s, M(s, h))]
    IN Piece[1, NextMatch(M, s, 1)]

\* Op(v), with v evaluated once however often Op uses its argument
Apply(Op(_), v) == CHOOSE r \in {Op(x) : x \in {v}} : TRUE

\* re.sub(pattern, rep, s, count=1)
SubFirst(M(_, _), rep, s) ==
    LET hits == {i \in 1..Len(s) : M(s, i) > 0}
    IN IF hits = {} THEN s
       ELSE Slice(s, 1, Min(hits) - 1) \o rep \o From(s, M(s, Min(hits)))

\* the first alternative of alts (in order) that matches at i between two \b
RECURSIVE WordAltEnd(_, _, _, _)
WordAltEnd(alts, k, s, i) ==
    IF k > Len(alts) THEN 0
    ELSE IF AtNoCase(s, i, alts[k]) /\ Boundary(s, i + Len(alts[k])) THEN i + Len(alts[k])
    ELSE WordAltEnd(alts, k + 1, s, i)

\* \b(a1|a2|...)\b with re.IGNORECASE
MatchWordAlt(alts, s, i) == IF Boundary(s, i) THEN WordAltEnd(alts, 1, s, i) ELSE 0

(***************************************************************************)
(* TitleParser.clean_filename: the patterns, in the order they are applied *)
(***************************************************************************)

\* r'[._-]+'
IsSeparator(c) == c \in {".", "_", "-"}

MatchSeparators(s, i) == IF IsSeparator(Char(s, i)) THEN RunEnd(IsSeparator, s, i) ELSE 0

Extensions == <<"mkv", "mp4", "avi", "mov", "wmv", "flv", "webm", "m4v">>

\* r'\.(mkv|mp4|avi|mov|wmv|flv|webm|m4v)$', re.IGNORECASE
MatchExtension(s, i) ==
    IF /\ Char(s, i) = "."
       /\ \E k \in 1..Len(Extensions) :
              Len(s) - i = Len(Extensions[k]) /\ AtNoCase(s, i + 1, Extensions[k])
    THEN Len(s) + 1 ELSE 0

\* an opening character, anything but the closing one, the closing character
MatchSpan(open, close, s, i) ==
    LET closers == {j \in (i + 1)..Len(s) : Char(s, j) = close}
    IN IF Char(s, i) = open /\ closers # {}
       THEN Min(closers) + 1
       ELSE 0

\* r'\[[^\]]*\]'
MatchBrackets(s, i) == MatchSpan("[", "]", s, i)

\* r'\([^)]*\)'
MatchParens(s, i) == MatchSpan("(", ")", s, i)

\* r'S\d{1,2}E\d{1,2}', re.IGNORECASE: each \d{1,2} takes two digits when it can
MatchSeasonEpisode(s, i) ==
    LET d1 == IF DigitsAt(s, i + 1, 2) /\ AtNoCase(s, i + 3, "e") THEN 2
              ELSE IF DigitsAt(s, i + 1, 1) /\ AtNoCase(s, i + 2, "e") THEN 1
              ELSE 0
        j == i + d1 + 2
    IN IF AtNoCase(s, i, "s") /\ d1 > 0 /\ DigitsAt(s, j, 1)
       THEN IF DigitsAt(s, j, 2) THEN j + 2 ELSE j + 1
       ELSE 0

\* r'\b\d{1,2}x\d{1,2}\b', re.IGNORECASE
MatchNxM(s, i) ==
    LET d1 == IF DigitsAt(s, i, 2) /\ AtNoCase(s, i + 2, "x") THEN 2
              ELSE IF DigitsAt(s, i, 1) /\ AtNoCase(s, i + 1, "x") THEN 1
              ELSE 0
        j == i + d1 + 1
    IN IF Boundary(s, i) /\ d1 > 0
       THEN IF DigitsAt(s, j, 2) /\ Boundary(s, j + 2) THEN j + 2
            ELSE IF DigitsAt(s, j, 1) /\ Boundary(s, j + 1) THEN j + 1
            ELSE 0
       ELSE 0

\* r'^www\.[^\s]+\s*-\s*', re.IGNORECASE: [^\s]+ gives characters back until a
\* '-' follows it (directly, or after the whitespace that ends the run)
MatchSitePrefix(s, i) ==
    LET run == RunEnd(IsNonSpace, s, 5)
        \* the positions of the '-' that can follow [^\s]+\s*
        dashes == {d \in 6..Len(s) : /\ Char(s, d) = "-"
                                     /\ \/ d <= run
                                        \/ d = RunEnd(IsSpace, s, run)}
    IN IF i = 1 /\ AtNoCase(s, 1, "www.") /\ dashes # {}
       THEN RunEnd(IsSpace, s, Max(dashes) + 1)
       ELSE 0

\* quality_patterns
QualityPatterns == <<
    <<"1080p", "720p", "480p", "2160p", "4k", "hdr">>,
    <<"web", "web-dl", "webrip", "bluray", "hdtv", "remux", "cam", "dvdrip", "hdrip", "brrip">>,
    <<"x264", "x265", "h264", "h265", "hevc", "avc", "aac", "ac3", "dts", "flac", "vp9">>,
    <<"ddp", "dd+", "dd", "10bit", "12bit">> >>

\* release_groups
ReleaseGroups == <<
    <<"edith", "megusta", "bearfish", "rawr", "nixon", "kitsune", "bae", "trollhd", "2hd",
      "shaanig", "tombdoc", "syncup", "hdhub4u">>,
    <<"amzn", "nf", "ip", "pcok", "dsnp", "dsny">> >>

\* for pattern in patterns: cleaned = re.sub(pattern, ' ', cleaned, flags=re.IGNORECASE)
SubWordAlts(patterns, s) ==
    LET \* cleaned after the first k patterns
        Cleaned[k \in 0..Len(patterns)] ==
            IF k = 0 THEN s
            ELSE LET M(t, i) == MatchWordAlt(patterns[k], t, i)
                     SubK(t) == Sub(M, " ", t)
                 IN Apply(SubK, Cleaned[k - 1])
    IN Cleaned[Len(patterns)]

\* [tok for tok in cleaned.split() if len(tok) > 1 and not tok.isdigit()]
KeepTokens(words) == SelectSeq(words, LAMBDA tok : Len(tok) > 1 /\ ~IsDigitString(tok))

\* r'\s+'
MatchSpaces(s, i) == IF IsSpace(Char(s, i)) THEN RunEnd(IsSpace, s, i) ELSE 0

\* TitleParser.clean_filename
clean_filename(filename) ==
    LET Step1(c) == Sub(MatchSeparators, " ", c)
        Step2(c) == Sub(MatchExtension, "", c)
        Step3a(c) == Sub(MatchBrackets, " ", c)
        Step3b(c) == Sub(MatchParens, " ", c)
        Step4a(c) == Sub(MatchSeasonEpisode, " ", c)
        Step4b(c) == Sub(MatchNxM, " ", c)
        Step5(c) == Sub(MatchSitePrefix, "", c)
        Step6(c) == SubWordAlts(QualityPatterns, c)
        Step7(c) == SubWordAlts(ReleaseGroups, c)
        Step8(c) == Join(KeepTokens(Split(c)))
        Step9a(c) == Sub(MatchSpaces, " ", c)
    IN Strip(Apply(Step9a, Apply(Step8, Apply(Step7, Apply(Step6, Apply(Step5,
             Apply(Step4b, Apply(Step4a, Apply(Step3b, Apply(Step3a, Apply(Step2,
             Apply(Step1, filename))))))))))))

\* r'\b(19\d{2}|20\d{2})\b'
MatchYear(s, i) ==
    IF /\ Boundary(s, i)
       /\ i + 3 <= Len(s)
       /\ Slice(s, i, i + 1) \in {"19", "20"}
       /\ DigitsAt(s, i + 2, 2)
       /\ Boundary(s, i + 4)
    THEN i + 4 ELSE 0

\* TitleParser.extract_title_and_year: <<title, year>>
extract_title_and_year(filename) ==
    LET hits == {i \in 1..Len(filename) : MatchYear(filename, i) > 0}
        \* year_match.group(1)
        group1 == Slice(filename, Min(hits), Min(hits) + 3)
        \* the year digits, used as a pattern: their first occurrence anywhere
        MatchGroup1(s, i) == IF Slice(s, i, i + 3) = group1 THEN i + 4 ELSE 0
    IN IF hits = {} THEN <<clean_filename(filename), None>>
       ELSE <<Apply(clean_filename, SubFirst(MatchGroup1, " ", filename)),
              Some(ToInt(group1))>>

(***************************************************************************)
(* The inputs: the download history and what the catalog may answer        *)
(***************************************************************************)

\* how many records fetch_downloads returns at most
MaxDownloads == 2

\* how many candidates a catalog search returns at most
MaxResults == 2

MatrixFile == "The.Matrix.1999.1080p.BluRay.x264-GROUP.mkv"

SiteShowFile == "www.site.com - Show.Name.S02E05.WEBRip.x265.mkv"

\* the records of the download history: {'filename': ..., 'generated': ...}
DownloadRecords == {
    [filename |-> "", generated |-> Some(7)],
    [filename |-> "It", generated |-> None],
    [filename |-> "Her", generated |-> Some(7)],
    [filename |-> "Her.", generated |-> None],
    [filename |-> "1080p.x264", generated |-> None],
    [filename |-> "Shameless US", generated |-> None],
    [filename |-> "Shameless.2011.US", generated |-> Some(0)],
    [filename |-> MatrixFile, generated |-> Some(3661)] }

\* extract_title_and_year on the filenames of the download history, computed once
ParsedTable == [f \in {r.filename : r \in DownloadRecords} |-> extract_title_and_year(f)]

DownloadLists == UNION {[1..n -> DownloadRecords] : n \in 1..MaxDownloads}

\* the imdb_id field of a detail response: missing or null, empty, with the
\* "tt" prefix, without it, or some other identifier
RawIds == {None, Some(""), Some("tt1"), Some("2"), Some("nm3")}

\* a detail request raises (ok = FALSE) or answers with external_ids.imdb_id
DetailResponses == {[ok |-> FALSE, imdb_id |-> None]}
                   \cup {[ok |-> TRUE, imdb_id |-> r] : r \in RawIds}

\* a candidate of /search/movie or /search/tv: its id is truthy or not
KindCandidates == {[id |-> b, media_type |-> "-"] : b \in BOOLEAN}

\* a candidate of /search/multi, tagged with its media_type
MultiCandidates == {[id |-> b, media_type |-> m] : b \in BOOLEAN, m \in {"movie", "tv", "person"}}

ResultLists(Candidates) == UNION {[1..n -> Candidates] : n \in 0..MaxResults}

\* a search request raises (ok = FALSE) or answers with its ranked results
SearchResponses(Candidates) ==
    {[ok |-> FALSE, results |-> <<>>]}
    \cup {[ok |-> TRUE, results |-> r] : r \in ResultLists(Candidates)}

(***************************************************************************)
(* The state                                                               *)
(***************************************************************************)

VARIABLES
    downloads,      \* process_downloads: the fetched list
    idx,            \* process_downloads: the loop index (1-based)
    trakt_entries,  \* process_downloads: the output sequence
    title,          \* process_downloads: the parsed title of the current record
    year,           \* process_downloads: the parsed year of the current record
    watched_at,     \* process_downloads: the derived timestamp
    title_cache,    \* TraktImportGenerator.title_cache: cache_key -> Optional[str]
    pc,             \* "loop", "search", "detail", "done" or "crashed"
    pass,           \* lookup_title: the attempt_lookup call in progress
    kind,           \* attempt_lookup: the search in progress
    results,        \* search_*_with_external_ids: the results of the search request
    rank,           \* search_*_with_external_ids: the candidate being cross-referenced
    valid_results,  \* search_multi_with_external_ids: the imdb_id of each item kept
    calls,          \* log: the search requests issued for the current record
    details,        \* log: the detail requests issued by the current search
    failed,         \* log: some request for the current record raised
    all_failed,     \* log: every request for the current record raised
    found,          \* log: the searches of the current record that yielded an ID
    ret,            \* log: what the last lookup_title call returned
    appended,       \* log: the last record added an entry to trakt_entries
    outcome,        \* log: how far the last record got
    first_ret,      \* log: <<title, year>> -> what the first lookup_title call returned
    nfile,          \* normalizer runs: the input filename
    nout            \* normalizer runs: the results so far

vars == <<downloads, idx, trakt_entries, title, year, watched_at, title_cache, pc, pass, kind,
          results, rank, valid_results, calls, details, failed, all_failed, found, ret,
          appended, outcome, first_ret, nfile, nout>>

normVars == <<nfile, nout>>

searchVars == <<results, rank, valid_results>>

(***************************************************************************)
(* TMDBLookup: what the search functions do with the catalog's answers     *)
(***************************************************************************)

\* if imdb_id and not imdb_id.startswith("tt"): imdb_id = f"tt{imdb_id}"
NormalizeImdb(imdb_id) ==
    IF TruthyStr(imdb_id) /\ ~StartsWith(Val(imdb_id), "tt")
    THEN Some("tt" \o Val(imdb_id)) ELSE imdb_id

\* a search function without its try/except: the exception leaves it
SearchRaises(k) == [raised |-> TRUE, value |-> None]

\* except Exception as e: print(...); return None (return [] in the multi
\* search): the exception is caught, and the function returns nothing
SearchFailed(k) == [raised |-> FALSE, value |-> None]

\* search_multi_with_external_ids keeps an item when
\* media_type in ("movie", "tv") and its id is truthy
MultiEligible(item) == item.media_type \in {"movie", "tv"} /\ item.id

\* the next item of the multi results, from rank r on, that gets a detail
\* request (0 when the loop over the results ends)
NextEligible(rs, r) ==
    LET js == {j \in r..Len(rs) : MultiEligible(rs[j])}
    IN IF js = {} THEN 0 ELSE Min(js)

\* attempt_lookup on the multi results: the imdb_id of the first item that has one
\*   for item in multi_results: if item.get("imdb_id"): return item.get("imdb_id")
FirstImdb(items) ==
    LET js == {j \in 1..Len(items) : TruthyStr(items[j])}
    IN IF js = {} THEN None ELSE items[Min(js)]

(***************************************************************************)
(* TraktImportGenerator.lookup_title: the cascade                          *)
(***************************************************************************)

\* a cache key that leaves the year out
cache_key_title_only(t, y) == t \o "_"

\* cache_key = f"{title}_{year}"
cache_key(t, y) == t \o "_" \o PyStr(y)

region_suffixes == <<" US", " UK", " AU", " CA", " NZ">>

\* for word_count in [3, 2]
word_counts == <<3, 2>>

common_words == <<"the", "a", "an">>

\* One attempt_lookup call of lookup_title: the strategy (1 to 5), the
\* iteration of the strategy's loop (0 for strategies 1 and 2), and whether it
\* is the call with the year (relaxed = FALSE) or the one with None
Pass(st, it, rl) == [strategy |-> st, iter |-> it, relaxed |-> rl]

\* lookup_title has no attempt left: it stores and returns imdb
ExitPass == Pass(0, 0, FALSE)

\* the search_title argument of the attempt_lookup call p
search_title(p, t) ==
    CASE p.strategy = 3 -> Strip(Slice(t, 1, Len(t) - Len(region_suffixes[p.iter])))
      [] p.strategy = 4 -> Join(SubSeq(Split(t), 1, word_counts[p.iter]))
      [] p.strategy = 5 -> Strip(From(t, Len(common_words[p.iter]) + 1))
      [] OTHER -> t

\* the search_year argument of the attempt_lookup call p
search_year(p, y) == IF p.relaxed THEN None ELSE y

\* the first iteration j >= from of a loop of n iterations whose condition holds
FirstIter(Applies(_), from, n) ==
    LET js == {j \in from..n : Applies(j)}
    IN IF js = {} THEN 0 ELSE Min(js)

\* Strategy 5: for word in common_words: if title.lower().startswith(word + " ")
Strategy5From(from, t) ==
    LET Applies(j) == AtNoCase(t, 1, common_words[j] \o " ")
        j == FirstIter(Applies, from, Len(common_words))
    IN IF j = 0 THEN ExitPass ELSE Pass(5, j, FALSE)

\* Strategy 4: for word_count in [3, 2]: if len(words) >= word_count
Strategy4From(from, t) ==
    LET Applies(j) == Len(Split(t)) >= word_counts[j]
        j == FirstIter(Applies, from, Len(word_counts))
    IN IF j = 0 THEN Strategy5From(1, t) ELSE Pass(4, j, FALSE)

\* if not imdb and len(title.split()) > 3
Strategy4Entry(t) == IF Len(Split(t)) > 3 THEN Strategy4From(1, t) ELSE Strategy5From(1, t)

\* Strategy 3: for suffix in region_suffixes: if title.endswith(suffix)
Strategy3From(from, t) ==
    LET Applies(j) == EndsWith(t, region_suffixes[j])
        j == FirstIter(Applies, from, Len(region_suffixes))
    IN IF j = 0 THEN Strategy4Entry(t) ELSE Pass(3, j, FALSE)

\* the attempt_lookup call that follows call p when p returned None
NextPass(p, t, y) ==
    CASE p.strategy = 1 -> IF y # None THEN Pass(2, 0, TRUE) ELSE Strategy3From(1, t)
      [] p.strategy = 2 -> Strategy3From(1, t)
      [] p.strategy >= 3 /\ ~p.relaxed -> Pass(p.strategy, p.iter, TRUE)
      [] p.strategy = 3 /\ p.relaxed -> Strategy3From(p.iter + 1, t)
      [] p.strategy = 4 /\ p.relaxed -> Strategy4From(p.iter + 1, t)
      [] p.strategy = 5 /\ p.relaxed -> Strategy5From(p.iter + 1, t)

\* an attempt_lookup that runs the multi search before the show search
NextKindMultiFirst(k) == CASE k = "movie" -> "multi" [] k = "multi" -> "tv" [] OTHER -> ""

\* attempt_lookup: the search that follows search k when k yielded no ID
\* ("" when the multi search was the last one: attempt_lookup returns None)
NextKind(k) == CASE k = "movie" -> "tv" [] k = "tv" -> "multi" [] OTHER -> ""

\* a cache that keeps only the entry written last
CacheStoreOnly(cache, key, imdb) == [k \in {key} |-> imdb]

\* a cache that stores only the IDs that were found
CacheStoreFound(cache, key, imdb) ==
    IF imdb = None THEN cache
    ELSE [k \in DOMAIN cache \cup {key} |-> IF k = key THEN imdb ELSE cache[k]]

\* self.title_cache[cache_key] = imdb
CacheStore(cache, key, imdb) ==
    [k \in DOMAIN cache \cup {key} |-> IF k = key THEN imdb ELSE cache[k]]

(***************************************************************************)
(* TraktImportGenerator.process_downloads                                  *)
(***************************************************************************)

\* a length test that lets titles of 2 characters through
UnusableBelowTwo(t) == t = "" \/ Len(t) < 2

\* if not title or len(title) < 3: continue
Unusable(t) == t = "" \/ Len(t) < 3

TwoDigits(n) == ToStr(n \div 10) \o ToStr(n % 10)

\* datetime.fromtimestamp(n).isoformat() for a time of day of 1970-01-01, with
\* UTC as the local time zone
IsoFormat(n) ==
    "1970-01-01T" \o TwoDigits(n \div 3600) \o ":" \o TwoDigits((n % 3600) \div 60)
    \o ":" \o TwoDigits(n % 60)

\* watched_at: dt.isoformat() + "Z" if generated is truthy, else None
WatchedAt(generated) ==
    IF TruthyInt(generated) THEN Some(IsoFormat(Val(generated)) \o "Z") ELSE None

\* a process_downloads that puts each new entry in front of the others
AppendEntryFirst(entries, imdb_id, watched) ==
    IF TruthyStr(imdb_id)
    THEN <<[imdb_id |-> Val(imdb_id), watched_at |-> watched]>> \o entries
    ELSE entries

\* if imdb_id: trakt_entries.append({"imdb_id": imdb_id, "watched_at": watched_at})
AppendEntry(entries, imdb_id, watched) ==
    IF TruthyStr(imdb_id)
    THEN Append(entries, [imdb_id |-> Val(imdb_id), watched_at |-> watched])
    ELSE entries

\* lookup_title returned imdb to process_downloads: the rest of the iteration
Complete(imdb, how) ==
    /\ trakt_entries' = AppendEntry(trakt_entries, imdb, watched_at')
    /\ appended' = (trakt_entries' # trakt_entries)
    /\ ret' = imdb
    /\ outcome' = how
    /\ idx' = idx + 1
    /\ pc' = "loop"

\* the log of first returns: what lookup_title(t, y) returned when it first ran
\* its cascade
FirstReturn(log, t, y, imdb) ==
    IF <<t, y>> \in DOMAIN log THEN log
    ELSE [k \in DOMAIN log \cup {<<t, y>>} |-> IF k = <<t, y>> THEN imdb ELSE log[k]]

\* a lookup_title that stores the result under the key of the attempt_lookup
\* call that ended the cascade
ReturnUnderVariantKey(imdb) ==
    /\ title_cache' = CacheStore(title_cache,
                                 cache_key(search_title(pass, title), search_year(pass, year)),
                                 imdb)
    /\ first_ret' = FirstReturn(first_ret, title, year, imdb)
    /\ UNCHANGED <<pass, kind>>
    /\ Complete(imdb, "looked_up")

\* lookup_title ends: it stores imdb under the key of its own arguments and
\* returns it
ReturnFromLookup(imdb) ==
    /\ title_cache' = CacheStore(title_cache, cache_key(title, year), imdb)
    /\ first_ret' = FirstReturn(first_ret, title, year, imdb)
    /\ UNCHANGED <<pass, kind>>
    /\ Complete(imdb, "looked_up")

\* an attempt_lookup that returns only what the multi search found
StopsAtMultiOnly(k, imdb) == k = "multi" /\ TruthyStr(imdb)

\* attempt_lookup after search k returned a result whose imdb_id is imdb:
\*   if result and result.get("imdb_id"): return result.get("imdb_id")
\* and lookup_title after attempt_lookup returned it: if imdb: break / if not imdb
StopsAt(k, imdb) == TruthyStr(imdb)

\* A search function returned to attempt_lookup, which reads imdb as the
\* result's imdb_id: attempt_lookup and lookup_title run on to the next search
\* request, or to the end of lookup_title
Resume(imdb) ==
    /\ UNCHANGED <<title, year, watched_at, downloads, normVars>>
    /\ results' = <<>>
    /\ rank' = 0
    /\ valid_results' = <<>>
    /\ found' = IF TruthyStr(imdb) THEN Append(found, [at |-> Len(calls'), imdb_id |-> imdb])
                ELSE found
    /\ IF StopsAt(kind, imdb) THEN ReturnFromLookup(imdb)
       ELSE IF NextKind(kind) # ""
       THEN /\ kind' = NextKind(kind)
            /\ pc' = "search"
            /\ UNCHANGED <<pass, title_cache, first_ret, trakt_entries, ret, appended,
                           outcome, idx>>
       ELSE IF NextPass(pass, title, year) # ExitPass
       THEN /\ pass' = NextPass(pass, title, year)
            /\ kind' = "movie"
            /\ pc' = "search"
            /\ UNCHANGED <<title_cache, first_ret, trakt_entries, ret, appended, outcome, idx>>
       ELSE ReturnFromLookup(None)

\* an exception leaves lookup_title and process_downloads: the run dies
Crash ==
    /\ pc' = "crashed"
    /\ UNCHANGED <<title, year, watched_at, downloads, normVars, searchVars, found, pass,
                   kind, title_cache, first_ret, trakt_entries, ret, appended, outcome, idx>>

\* a request raised inside a search function
RequestRaised ==
    /\ failed' = TRUE
    /\ UNCHANGED all_failed
    /\ IF SearchFailed(kind).raised THEN Crash ELSE Resume(SearchFailed(kind).value)

\* a request was answered
RequestAnswered ==
    /\ all_failed' = FALSE
    /\ UNCHANGED failed

\* the parameters of a search request: the query, and the year when it is truthy
\* (the multi search sends no year)
SearchCall(k, q, y) ==
    [kind |-> k, query |-> q, year |-> IF k # "multi" /\ TruthyInt(y) THEN y ELSE None]

\* One iteration of the loop of process_downloads, up to its first search request
\* (or to its end when the record is skipped or its title is cached)
NextDownload ==
    /\ pc = "loop"
    /\ idx <= Len(downloads)
    /\ calls' = <<>>
    /\ details' = <<>>
    /\ failed' = FALSE
    /\ all_failed' = TRUE
    /\ found' = <<>>
    /\ UNCHANGED <<downloads, normVars, searchVars>>
    /\ LET filename == downloads[idx].filename
           \* title, year = self.title_parser.extract_title_and_year(filename)
           parsed == ParsedTable[filename]
       IN IF filename = ""
          THEN /\ idx' = idx + 1
               /\ outcome' = "no_filename"
               /\ appended' = FALSE
               /\ UNCHANGED <<title, year, watched_at, title_cache, first_ret, trakt_entries,
                              ret, pc, pass, kind>>
          ELSE /\ title' = parsed[1]
               /\ year' = parsed[2]
               /\ IF Unusable(parsed[1])
                  THEN /\ idx' = idx + 1
                       /\ outcome' = "unusable"
                       /\ appended' = FALSE
                       /\ UNCHANGED <<watched_at, title_cache, first_ret, trakt_entries,
                                      ret, pc, pass, kind>>
                  ELSE /\ watched_at' = WatchedAt(downloads[idx].generated)
                       /\ IF cache_key(parsed[1], parsed[2]) \in DOMAIN title_cache
                          THEN /\ Complete(title_cache[cache_key(parsed[1], parsed[2])],
                                           "cache_hit")
                               /\ UNCHANGED <<title_cache, first_ret, pass, kind>>
                          ELSE /\ pass' = Pass(1, 0, FALSE)
                               /\ kind' = "movie"
                               /\ pc' = "search"
                               /\ outcome' = "looking_up"
                               /\ appended' = FALSE
                               /\ UNCHANGED <<title_cache, first_ret, trakt_entries, ret, idx>>

\* a search function that takes the last result of the list
LastResult(rs) == Len(rs)

\* movie = results[0], tv_show = results[0]: the rank of the result that
\* search_movie_with_external_ids and search_tv_show_with_external_ids take
FirstResult(rs) == 1

\* the request to /search/movie or /search/tv of search_movie_with_external_ids
\* and search_tv_show_with_external_ids, up to the detail request
SearchByKind(k) ==
    /\ pc = "search"
    /\ kind = k
    /\ calls' = Append(calls, SearchCall(k, search_title(pass, title), search_year(pass, year)))
    /\ details' = <<>>
    /\ \E resp \in SearchResponses(KindCandidates) :
          IF ~resp.ok
          THEN RequestRaised
          ELSE IF resp.results # <<>> /\ resp.results[FirstResult(resp.results)].id
          THEN /\ RequestAnswered
               /\ results' = resp.results
               /\ rank' = FirstResult(resp.results)
               /\ pc' = "detail"
               /\ UNCHANGED <<valid_results, found, title, year, watched_at, downloads,
                              normVars, pass, kind, title_cache, first_ret, trakt_entries,
                              ret, appended, outcome, idx>>
          ELSE /\ RequestAnswered
               /\ Resume(None)

SearchMovie == SearchByKind("movie")

SearchTv == SearchByKind("tv")

\* the detail request of search_movie_with_external_ids and
\* search_tv_show_with_external_ids, for the first result
DetailByKind(k) ==
    /\ pc = "detail"
    /\ kind = k
    /\ UNCHANGED calls
    /\ \E d \in DetailResponses :
          /\ details' = Append(details, [rank |-> rank, ok |-> d.ok,
                                         imdb_id |-> NormalizeImdb(d.imdb_id)])
          /\ IF ~d.ok
             THEN RequestRaised
             ELSE /\ RequestAnswered
                  /\ Resume(NormalizeImdb(d.imdb_id))

DetailMovie == DetailByKind("movie")

DetailTv == DetailByKind("tv")

\* the request to /search/multi of search_multi_with_external_ids, up to its first
\* detail request
SearchMulti ==
    /\ pc = "search"
    /\ kind = "multi"
    /\ calls' = Append(calls, SearchCall("multi", search_title(pass, title), None))
    /\ details' = <<>>
    /\ \E resp \in SearchResponses(MultiCandidates) :
          IF ~resp.ok
          THEN RequestRaised
          ELSE IF NextEligible(resp.results, 1) # 0
          THEN /\ RequestAnswered
               /\ results' = resp.results
               /\ rank' = NextEligible(resp.results, 1)
               /\ valid_results' = <<>>
               /\ pc' = "detail"
               /\ UNCHANGED <<found, title, year, watched_at, downloads, normVars, pass,
                              kind, title_cache, first_ret, trakt_entries, ret, appended,
                              outcome, idx>>
          ELSE /\ RequestAnswered
               /\ Resume(FirstImdb(<<>>))

\* one detail request of the loop of search_multi_with_external_ids, up to the
\* next one (or to the return of valid_results)
DetailMulti ==
    /\ pc = "detail"
    /\ kind = "multi"
    /\ UNCHANGED calls
    /\ \E d \in DetailResponses :
          /\ details' = Append(details, [rank |-> rank, ok |-> d.ok,
                                         imdb_id |-> NormalizeImdb(d.imdb_id)])
          /\ IF ~d.ok
             THEN RequestRaised
             ELSE /\ RequestAnswered
                  /\ IF NextEligible(results, rank + 1) # 0
                     THEN /\ valid_results' = Append(valid_results, NormalizeImdb(d.imdb_id))
                          /\ rank' = NextEligible(results, rank + 1)
                          /\ UNCHANGED <<results, pc, found, title, year, watched_at,
                                         downloads, normVars, pass, kind, title_cache,
                                         first_ret, trakt_entries, ret, appended, outcome, idx>>
                     ELSE Resume(FirstImdb(Append(valid_results, NormalizeImdb(d.imdb_id))))

\* process_downloads returns trakt_entries
Finish ==
    /\ pc = "loop"
    /\ idx > Len(downloads)
    /\ pc' = "done"
    /\ UNCHANGED <<downloads, idx, trakt_entries, title, year, watched_at, title_cache, pass,
                   kind, searchVars, calls, details, failed, all_failed, found, ret, appended,
                   outcome, first_ret, normVars>>

\* TraktImportGenerator.__init__, and fetch_downloads at the top of
\* process_downloads, which returned the list ds
Constructed(ds) ==
    /\ downloads = ds
    /\ idx = 1
    /\ trakt_entries = <<>>
    /\ title = ""
    /\ year = None
    /\ watched_at = None
    /\ title_cache = [k \in {} |-> None]
    /\ pc = "loop"
    /\ pass = ExitPass
    /\ kind = "movie"
    /\ results = <<>>
    /\ rank = 0
    /\ valid_results = <<>>
    /\ calls = <<>>
    /\ details = <<>>
    /\ failed = FALSE
    /\ all_failed = TRUE
    /\ found = <<>>
    /\ ret = None
    /\ appended = FALSE
    /\ outcome = "start"
    /\ first_ret = [k \in {} |-> None]

Init ==
    /\ \E ds \in DownloadLists : Constructed(ds)
    /\ nfile = ""
    /\ nout = <<>>

Next ==
    \/ NextDownload
    \/ SearchMovie
    \/ DetailMovie
    \/ SearchTv
    \/ DetailTv
    \/ SearchMulti
    \/ DetailMulti
    \/ Finish

Spec == Init /\ [][Next]_vars

(***************************************************************************)
(* TitleParser on its own: extract_title_and_year applied to a filename,   *)
(* and applied again to the title it returned                              *)
(***************************************************************************)

MaxParts == 3

\* the pieces filenames are put together from
NormParts == <<"The", "Matrix", ".", "1999", "1080p", ".mkv", " - ", "www.site.com">>

Concat(ps) ==
    LET Cat[n \in 0..Len(ps)] == IF n = 0 THEN "" ELSE Cat[n - 1] \o NormParts[ps[n]]
    IN Cat[Len(ps)]

\* a filename with a second year, followed by punctuation
TwoYearsFile == "Movie.1999.2000!"

NormInputs ==
    {MatrixFile, SiteShowFile, TwoYearsFile}
        \cup {Concat(ps) : ps \in UNION {[1..n -> DOMAIN NormParts] : n \in 0..MaxParts}}

pipelineVars ==
    <<downloads, idx, trakt_entries, title, year, watched_at, title_cache, pc, pass, kind,
      results, rank, valid_results, calls, details, failed, all_failed, found, ret,
      appended, outcome, first_ret>>

NormInit ==
    /\ Constructed(<<>>)
    /\ nfile \in NormInputs
    /\ nout = <<>>

\* extract_title_and_year(filename)
Normalize ==
    /\ nout = <<>>
    /\ nout' = <<extract_title_and_year(nfile)>>
    /\ UNCHANGED <<nfile, pipelineVars>>

\* extract_title_and_year applied to the title the first call returned
Renormalize ==
    /\ Len(nout) = 1
    /\ nout' = Append(nout, extract_title_and_year(nout[1][1]))
    /\ UNCHANGED <<nfile, pipelineVars>>

NormNext ==
    \/ Normalize
    \/ Renormalize

NormSpec == NormInit /\ [][NormNext]_vars

(***************************************************************************)
(* The claims                                                              *)
(***************************************************************************)

\* lookup_title is running its cascade
LookingUp == pc \in {"search", "detail"}

\* the search request the detail log belongs to
LastCall == calls[Len(calls)]

\* The attempt_lookup calls the cascade is said to make for (t, y), in order:
\* the full title with the year, the full title without it when there is a
\* year, then for the region-stripped title, the first 3 words, the first 2
\* words and the article-stripped title the call with the year and the call
\* without it
ExpectedPasses(t, y) ==
    LET Both(q) == <<[query |-> q, year |-> y], [query |-> q, year |-> None]>>
        words == Split(t)
        region == {j \in DOMAIN region_suffixes : EndsWith(t, region_suffixes[j])}
        article == {j \in DOMAIN common_words : AtNoCase(t, 1, common_words[j] \o " ")}
        Stripped(j) == Strip(Slice(t, 1, Len(t) - Len(region_suffixes[j])))
        Bare(j) == Strip(From(t, Len(common_words[j]) + 1))
    IN <<[query |-> t, year |-> y]>>
       \o (IF y # None THEN <<[query |-> t, year |-> None]>> ELSE <<>>)
       \o (IF region # {} THEN Both(Stripped(Min(region))) ELSE <<>>)
       \o (IF Len(words) > 3
           THEN Both(Join(SubSeq(words, 1, 3))) \o Both(Join(SubSeq(words, 1, 2)))
           ELSE <<>>)
       \o (IF article # {} THEN Both(Bare(Min(article))) ELSE <<>>)

\* the search requests of those calls: movie, show, multi in every pass
ExpectedCalls(t, y) ==
    LET ps == ExpectedPasses(t, y)
        Kinds == <<"movie", "tv", "multi">>
    IN [n \in 1..(3 * Len(ps)) |->
           LET p == ps[((n - 1) \div 3) + 1]
               k == Kinds[((n - 1) % 3) + 1]
           IN [kind |-> k, query |-> p.query,
               year |-> IF k = "multi" THEN None ELSE p.year]]

\* ExpectedCalls for the titles of the download history, computed once
ExpectedTable ==
    [p \in {ParsedTable[f] : f \in DOMAIN ParsedTable} |-> ExpectedCalls(p[1], p[2])]

\* C1: once lookup_title has resolved a (title, year), no later lookup of the
\* same (title, year) issues a catalog query, and each returns what the first
\* call returned, an ID or None
C1_CacheHit ==
    /\ LookingUp => <<title, year>> \notin DOMAIN first_ret
    /\ outcome = "cache_hit" =>
          /\ calls = <<>>
          /\ <<title, year>> \in DOMAIN first_ret
          /\ ret = first_ret[<<title, year>>]

\* a second record with the title and year of the first one got the ID the
\* first lookup returned, without a query
C1_Witness ==
    /\ outcome = "cache_hit"
    /\ ret # None
    /\ calls = <<>>
    /\ idx = 3

\* C2: within one uncached lookup_title call, the first search that yields a
\* non-empty ID is the last search of the call, and its ID is what the call
\* returns
C2_FirstIdEndsCascade ==
    found # <<>> =>
        /\ ~LookingUp
        /\ Len(found) = 1
        /\ found[1].at = Len(calls)
        /\ outcome = "looked_up"
        /\ ret = found[1].imdb_id

\* the movie search of the first pass yielded an ID, and nothing was asked after it
C2_Witness ==
    /\ found # <<>>
    /\ found[1].at = 1
    /\ Len(calls) = 1
    /\ ret = Some("tt1")

C5_FailureIsNoCandidate ==
    /\ pc # "crashed"
    /\ (outcome = "looked_up" /\ ret = None) =>
          Len(calls) = Len(ExpectedTable[<<title, year>>])
    /\ (outcome = "looked_up" /\ all_failed) =>
          /\ failed
          /\ ret = None
          /\ ~appended
          /\ pc \in {"loop", "done"}
    /\ (pc = "loop" /\ idx <= Len(downloads)) => ENABLED NextDownload
    /\ pc = "done" => idx = Len(downloads) + 1

\* every request made for the first of two records failed: the cascade ran to
\* its end, the record added nothing, and the loop is at the second record
C5_Witness ==
    /\ pc = "loop"
    /\ Len(downloads) = 2
    /\ idx = 2
    /\ outcome = "looked_up"
    /\ all_failed
    /\ Len(calls) = 24
    /\ trakt_entries = <<>>

\* C6: a lookup_title call that ends its cascade without an ID returns None
\* and stores None under its key, whether its requests failed or were
\* answered; a later lookup of the key returns None without a query
C6_NegativeCaching ==
    /\ (outcome = "looked_up" /\ found = <<>>) =>
          /\ ret = None
          /\ cache_key(title, year) \in DOMAIN title_cache
          /\ title_cache[cache_key(title, year)] = None
    /\ (outcome = "cache_hit" /\ <<title, year>> \in DOMAIN first_ret
            /\ first_ret[<<title, year>>] = None) =>
          /\ ret = None
          /\ calls = <<>>
          /\ ~appended

\* a lookup whose requests all failed stored None
C6_Witness ==
    /\ outcome = "looked_up"
    /\ all_failed
    /\ calls # <<>>
    /\ cache_key(title, year) \in DOMAIN title_cache
    /\ title_cache[cache_key(title, year)] = None

\* C7: an uncached lookup_title call adds one cache entry, under the key of the
\* title and year it was called with, holding what it returns; it adds or
\* changes no other entry, and nothing else writes the cache
C7_OneEntryOriginalKey ==
    [][IF LookingUp /\ pc' = "loop"
       THEN /\ cache_key(title, year) \notin DOMAIN title_cache
            /\ DOMAIN title_cache' = DOMAIN title_cache \cup {cache_key(title, year)}
            /\ title_cache'[cache_key(title, year)] = ret'
            /\ \A k \in DOMAIN title_cache : title_cache'[k] = title_cache[k]
       ELSE title_cache' = title_cache]_vars

\* the ID was found by the 2-word truncation and stored under the key of the
\* full title and the year, next to the entry of an earlier record
C7_Witness ==
    /\ outcome = "looked_up"
    /\ found # <<>>
    /\ LastCall.query = "The Matrix"
    /\ DOMAIN title_cache = {"Her_None", "The Matrix GROUP mkv_1999"}

\* C8: a record with an empty filename, or with a title that is empty or
\* shorter than 3 characters, makes no catalog call, writes no cache entry
\* and adds no output entry; a title of 3 characters or more is looked up; a
\* lookup that returns None adds no entry; every entry has a non-empty ID
C8_SkippedRecords ==
    [][/\ (pc = "loop" /\ idx <= Len(downloads)) =>
            LET f == downloads[idx].filename
                t == ParsedTable[f][1]
            IN IF f = "" \/ t = "" \/ Len(t) < 3
               THEN /\ pc' = "loop"
                    /\ calls' = <<>>
                    /\ title_cache' = title_cache
                    /\ trakt_entries' = trakt_entries
                    /\ idx' = idx + 1
               ELSE pc' = "search" \/ outcome' = "cache_hit"
       /\ (pc' = "loop" /\ outcome' \in {"looked_up", "cache_hit"} /\ ret' = None) =>
            trakt_entries' = trakt_entries
       /\ \A k \in DOMAIN trakt_entries' : trakt_entries'[k].imdb_id # ""]_vars

\* the 2-character title was skipped, and the 3-character title was looked up
\* and resolved
C8_Witness ==
    /\ pc = "done"
    /\ Len(downloads) = 2
    /\ downloads[1].filename = "It"
    /\ downloads[2].filename = "Her"
    /\ DOMAIN title_cache = {"Her_None"}
    /\ Len(trakt_entries) = 1

\* C9 as stated: a pass without the year follows the pass with the year on the
\* same title, and only when there is a year; with no year, no pass is made
\* twice in a row
C9_RelaxedOnlyWithYear ==
    \A n \in DOMAIN calls :
        /\ (year # None /\ calls[n].kind = "movie" /\ calls[n].year = None) =>
              /\ n > 3
              /\ calls[n - 3] = [kind |-> "movie", query |-> calls[n].query, year |-> year]
        /\ (year = None /\ n > 3) => calls[n] # calls[n - 3]

\* C10 as stated: the extension at the end of the filename is stripped (the
\* title of a filename that ends with "." and an extension does not end with
\* the extension, unless the name before the "." does), and the Matrix
\* filename yields the title "The Matrix" and the year 1999
C10_ExtensionStripped ==
    nout # <<>> =>
        /\ nfile = MatrixFile => nout[1] = <<"The Matrix", Some(1999)>>
        /\ \A j \in DOMAIN Extensions :
              LET e == Extensions[j]
                  stem == Slice(nfile, 1, Len(nfile) - Len(e) - 1)
              IN (EndsWith(nfile, "." \o e) /\ ~EndsWith(stem, e)) =>
                     ~EndsWith(nout[1][1], e)


\* C11 as stated: a leading site prefix "www.<domain> - " and the
\* season/episode marker are stripped (no title of a filename that starts with
\* "www.site.com - " starts with "www"), and the site-show filename yields the
\* title "Show Name" with no year
C11_SitePrefixStripped ==
    nout # <<>> =>
        /\ nfile = SiteShowFile => nout[1] = <<"Show Name", None>>
        /\ StartsWith(nfile, "www.site.com - ") => ~StartsWith(nout[1][1], "www")

\* C12 as stated: the title extract_title_and_year returns is a fixed point:
\* extract_title_and_year of it returns the same title and no year
C12_FixedPoint ==
    Len(nout) = 2 => nout[2] = <<nout[1][1], None>>

\* s matches tt[0-9]+
IsTtDigits(s) == Len(s) >= 3 /\ StartsWith(s, "tt") /\ DigitsAt(s, 3, Len(s) - 2)

\* C13 as stated: every ID that lookup_title returned, that the cache holds or
\* that an output entry carries matches tt[0-9]+, whatever imdb_id the detail
\* responses held
C13_IdPattern ==
    /\ ret # None => IsTtDigits(Val(ret))
    /\ \A k \in DOMAIN title_cache :
          title_cache[k] # None => IsTtDigits(Val(title_cache[k]))
    /\ \A k \in DOMAIN trakt_entries : IsTtDigits(trakt_entries[k].imdb_id)

\* C14 as stated: when the multi search has ended and the candidate ranked
\* first, a movie or show, got a non-empty ID from its detail request, the
\* search yields that ID, whatever the detail requests of the other candidates
\* did
C14_MultiFirstCandidate ==
    (/\ calls # <<>>
     /\ LastCall.kind = "multi"
     /\ pc # "detail"
     /\ details # <<>>
     /\ details[1].rank = 1
     /\ details[1].ok
     /\ TruthyStr(details[1].imdb_id)) =>
        /\ found # <<>>
        /\ found[Len(found)].at = Len(calls)
        /\ found[Len(found)].imdb_id = details[1].imdb_id

\* the cache key of the title and year of record j
KeyOf(j) ==
    cache_key(ParsedTable[downloads[j].filename][1], ParsedTable[downloads[j].filename][2])

\* record j has a filename and a title of 3 characters or more, and the cache
\* holds an ID for its title and year
Selected(j) ==
    /\ downloads[j].filename # ""
    /\ Len(ParsedTable[downloads[j].filename][1]) >= 3
    /\ KeyOf(j) \in DOMAIN title_cache
    /\ TruthyStr(title_cache[KeyOf(j)])

\* the selected records among the first n, in the order of the list
Selection(n) ==
    LET Sel[m \in 0..n] ==
            IF m = 0 THEN <<>>
            ELSE IF Selected(m) THEN Append(Sel[m - 1], m) ELSE Sel[m - 1]
    IN Sel[n]

\* C15: the output is the sequence, in the order of the list, of the records
\* processed so far that have a usable title whose lookup gave an ID; each
\* entry holds that ID and the timestamp derived from its own record's
\* generated field; the output is never longer than the list
C15_OrderPreservingSelection ==
    /\ Len(trakt_entries) <= Len(downloads)
    /\ Len(trakt_entries) = Len(Selection(idx - 1))
    /\ \A k \in DOMAIN trakt_entries :
          LET j == Selection(idx - 1)[k]
          IN /\ trakt_entries[k].imdb_id = Val(title_cache[KeyOf(j)])
             /\ trakt_entries[k].watched_at = WatchedAt(downloads[j].generated)

\* two records were resolved to different IDs: the output holds the entry of
\* the first record, then the entry of the second, each with its own timestamp
C15_Witness ==
    /\ pc = "done"
    /\ Len(trakt_entries) = 2
    /\ trakt_entries[1].watched_at = Some("1970-01-01T01:01:01Z")
    /\ trakt_entries[2].watched_at = Some("1970-01-01T00:00:07Z")
    /\ trakt_entries[1].imdb_id # trakt_entries[2].imdb_id

\* C16: no step removes a cache entry or changes its value, and every
\* lookup_title call returns what the first call with the same title and year
\* returned, whatever the catalog answers in between
C16_CacheStable ==
    [][/\ \A k \in DOMAIN title_cache :
            k \in DOMAIN title_cache' /\ title_cache'[k] = title_cache[k]
       /\ (idx' = idx + 1 /\ outcome' \in {"looked_up", "cache_hit"}) =>
            /\ <<title', year'>> \in DOMAIN first_ret'
            /\ ret' = first_ret'[<<title', year'>>]
            /\ title_cache'[cache_key(title', year')] = ret']_vars

\* two records with different filenames and the same title and year: the
\* second got the ID of the first from the one cache entry
C16_Witness ==
    /\ pc = "done"
    /\ Len(downloads) = 2
    /\ downloads[1].filename = "Her"
    /\ downloads[2].filename = "Her."
    /\ Cardinality(DOMAIN title_cache) = 1
    /\ Len(trakt_entries) = 2
    /\ trakt_entries[1].imdb_id = trakt_entries[2].imdb_id

=============================================================================
